---- MODULE Spec2Model ----
(***************************************************************************)
(* Model of python_ags4/ags4_cli.py: the click command line front end with *)
(* the two subcommands `convert` and `check`.                              *)
(*                                                                         *)
(* Python str values are sequences of one-character strings, so that       *)
(* str.endswith, str.lower, str.split, os.path.dirname and os.path.join    *)
(* are computed, not assumed.  Python None is the one-element sequence     *)
(* <<"None">>, which no character sequence equals.                         *)
(*                                                                         *)
(* One behaviour is one run of the program: the shell starts it with some  *)
(* command line, click processes the parameters, the command body runs,    *)
(* the library collaborators (python_ags4.AGS4) return or raise.           *)
(***************************************************************************)
EXTENDS Integers, Sequences, FiniteSets, TLC

VARIABLES pc, cmd, fs, log, ags_errors

vars == <<pc, cmd, fs, log, ags_errors>>

(***************************************************************************)
(* Bounds of the model.                                                    *)
(***************************************************************************)
\* largest number of rule-group keys in the mapping returned by check_file
MaxKeys == 2
\* record counts per key are taken within Slack of 0 and of the print limit
Slack == 1

(***************************************************************************)
(* Program constants.                                                      *)
(***************************************************************************)
\* `if error_count < 100`
ErrorLimit == 100

None == <<"None">>

AgsExt == <<".", "a", "g", "s">>
XlsxExt == <<".", "x", "l", "s", "x">>
Dash == <<"-">>
StdinName == <<"<", "s", "t", "d", "i", "n", ">">>
StdoutName == <<"<", "s", "t", "d", "o", "u", "t", ">">>
ErrorLogName == <<"e", "r", "r", "o", "r", "_", "l", "o", "g", ".", "t", "x", "t">>
\* pkg_resources.resource_filename('python_ags4', 'Standard_dictionary_v4_1.ags')
path_to_standard_dictionary == <<"p", "k", "g", "/", "S", "t", "d", ".", "a", "g", "s">>

(***************************************************************************)
(* Python string and path functions.                                       *)
(***************************************************************************)
\* str.endswith(suffix)
EndsWith(s, suffix) ==
    /\ Len(s) >= Len(suffix)
    /\ SubSeq(s, Len(s) - Len(suffix) + 1, Len(s)) = suffix

\* str.startswith(prefix)
StartsWith(s, prefix) ==
    /\ Len(s) >= Len(prefix)
    /\ SubSeq(s, 1, Len(prefix)) = prefix

LowerChar(c) ==
    CASE c = "A" -> "a" [] c = "E" -> "e" [] c = "F" -> "f" [] c = "G" -> "g"
      [] c = "L" -> "l" [] c = "N" -> "n" [] c = "O" -> "o" [] c = "R" -> "r"
      [] c = "S" -> "s" [] c = "T" -> "t" [] c = "U" -> "u" [] c = "X" -> "x"
      [] c = "Y" -> "y" [] OTHER -> c

\* str.lower()
Lower(s) == [i \in 1..Len(s) |-> LowerChar(s[i])]

RECURSIVE SplitFrom(_, _, _, _)
SplitFrom(s, sep, cur, acc) ==
    IF s = <<>> THEN Append(acc, cur)
    ELSE IF Head(s) = sep THEN SplitFrom(Tail(s), sep, <<>>, Append(acc, cur))
    ELSE SplitFrom(Tail(s), sep, Append(cur, Head(s)), acc)

\* str.split(sep) for a one-character separator
Split(s, sep) == SplitFrom(s, sep, <<>>, <<>>)

RECURSIVE LStrip(_, _)
LStrip(s, ch) == IF s # <<>> /\ Head(s) = ch THEN LStrip(Tail(s), ch) ELSE s

RECURSIVE RStrip(_, _)
RStrip(s, ch) ==
    IF s # <<>> /\ s[Len(s)] = ch THEN RStrip(SubSeq(s, 1, Len(s) - 1), ch) ELSE s

\* str.strip(ch) for a one-character argument
Strip(s, ch) == RStrip(LStrip(s, ch), ch)

\* str.rfind(ch) + 1: the 1-based position of the last ch, 0 when absent
RFind1(s, ch) ==
    LET hits == {i \in 1..Len(s) : s[i] = ch}
    IN IF hits = {} THEN 0 ELSE CHOOSE i \in hits : \A j \in hits : j <= i

\* os.path.dirname (posixpath)
Dirname(p) ==
    LET head == SubSeq(p, 1, RFind1(p, "/"))
    IN IF head # <<>> /\ (\E i \in 1..Len(head) : head[i] # "/")
       THEN RStrip(head, "/") ELSE head

\* os.path.join(a, b) (posixpath, two arguments)
Join(a, b) ==
    IF StartsWith(b, <<"/">>) THEN b
    ELSE IF a = <<>> \/ EndsWith(a, <<"/">>) THEN a \o b
    ELSE a \o <<"/">> \o b

(***************************************************************************)
(* The command lines tried.                                                *)
(***************************************************************************)
Stems == { <<"a">>, <<"d", "/", "b">> }

Exts == { AgsExt, XlsxExt, <<".", "A", "G", "S">>, <<".", "t", "x", "t">>,
          <<"a", "g", "s">>, AgsExt \o XlsxExt }

FileNames == { s \o e : s \in Stems, e \in Exts } \cup { Dash }

DictName == <<"d", "i", "c", "t", ".", "a", "g", "s">>
MissingDictName == <<"n", "o", "d", "i", "c", "t", ".", "a", "g", "s">>
DictArgs == { None, DictName, MissingDictName }

FormatColumnsArgs ==
    { None, <<"t", "r", "u", "e">>, <<"f", "a", "l", "s", "e">>,
      <<"T", "r", "u", "e">>, <<"F", "A", "L", "S", "E">>,
      <<"y", "e", "s">>, <<"Y", "E", "S">>, <<"n", "o">>, <<>> }

LogArgs == { None, <<"o", "u", "t", ".", "l", "o", "g">>, <<"a", ".", "a", "g", "s">> }

(***************************************************************************)
(* Events of a run, in order: lines printed to the console, collaborator   *)
(* calls and their outcome, files written by save_to_file.                 *)
(***************************************************************************)
Ev(ev, what, a, b, c, flag, n) ==
    [ev |-> ev, what |-> what, a |-> a, b |-> b, c |-> c, flag |-> flag, n |-> n]

Printed(what) == Ev("print", what, None, None, None, FALSE, 0)
PrintedPath(what, path) == Ev("print", what, path, None, None, FALSE, 0)
PrintedCount(what, n) == Ev("print", what, None, None, None, FALSE, n)

\* a line of a file: the original data of a file, or a line a writer put there
Line(what, a, b, n) == Ev("line", what, a, b, None, FALSE, n)

OriginalContent(path) == << Line("original", path, None, 0) >>

\* the files that exist when the program starts
InitialFiles ==
    { f \in FileNames : f # Dash /\ (f[1] = "a" \/ EndsWith(f, AgsExt)) }
        \cup { DictName, path_to_standard_dictionary }

(***************************************************************************)
(* The error mapping returned by AGS4.check_file: an ordered mapping from  *)
(* rule-group key to a sequence of records with line, group and desc.      *)
(* It is a sequence of [key, val] entries with distinct keys.              *)
(***************************************************************************)
RecordCounts ==
    (0..Slack) \cup { ErrorLimit \div 2 } \cup ((ErrorLimit - Slack)..(ErrorLimit + Slack))

KeyOf(i) == <<"R", ToString(i)>>

MkRecords(n) ==
    [j \in 1..n |-> [line |-> j, group |-> <<"\"", "G", "\"">>, desc |-> <<"d">>]]

MkMapping(counts) ==
    [i \in 1..Len(counts) |-> [key |-> KeyOf(i), val |-> MkRecords(counts[i])]]

ErrorMappings ==
    { MkMapping(counts) : counts \in UNION { [1..k -> RecordCounts] : k \in 0..MaxKeys } }

(***************************************************************************)
(* click parameter processing.  Options given on the command line are      *)
(* processed before the positional arguments, and INPUT_FILE before        *)
(* OUTPUT_FILE, so a rejected -d or INPUT_FILE leaves OUTPUT_FILE alone.   *)
(***************************************************************************)
\* the value click.File hands to the command: an open file with a name
FileObj(name) == [name |-> name]
\* the value of a click.File option that was not given (Python None)
NoFile == [name |-> None]

\* click.File: "-" is the standard stream, whose name is <stdin> or <stdout>
FileParamName(arg, mode) ==
    IF arg = Dash THEN (IF mode = "r" THEN StdinName ELSE StdoutName) ELSE arg

\* click.File('r') can open arg
CanOpenForRead(files, arg) == arg = Dash \/ arg \in DOMAIN files

\* click.File('w', lazy=False): open(arg, 'w') creates or truncates the file
OpenForWrite(files, arg) ==
    IF arg = Dash THEN files
    ELSE [p \in DOMAIN files \cup {arg} |-> IF p = arg THEN <<>> ELSE files[p]]

\* a file's content replaced by a writer's
WriteFile(files, path, content) ==
    [p \in DOMAIN files \cup {path} |-> IF p = path THEN content ELSE files[p]]

\* @click.option('-f', '--format_columns', default="true")
FormatColumnsParam(arg) == IF arg = None THEN <<"t", "r", "u", "e">> ELSE arg

\* @click.option('-d', '--dictionary', type=click.File('r'), default=None)
DictionaryParam(arg) == IF arg = None THEN NoFile ELSE FileObj(arg)

\* the command line as typed: the two file arguments, -f and -d (None: not given);
\* for check, o is the -o option
Argv(i, o, f, d) == [i |-> i, o |-> o, f |-> f, d |-> d]

Init ==
    /\ pc = "shell"
    /\ cmd = [command |-> "none", argv |-> Argv(None, None, None, None),
              input_file |-> NoFile, output_file |-> NoFile,
              format_columns |-> None, dictionary |-> NoFile]
    /\ fs = [p \in InitialFiles |-> OriginalContent(p)]
    /\ log = <<>>
    /\ ags_errors = <<>>

\* click rejects the convert command line: the command body is not run
ClickConvertUsage ==
    /\ pc = "shell"
    /\ \E i \in FileNames, d \in DictArgs :
          /\ (d # None /\ ~CanOpenForRead(fs, d)) \/ ~CanOpenForRead(fs, i)
          /\ cmd' = [cmd EXCEPT !.command = "convert", !.argv = Argv(i, None, None, d)]
    /\ log' = Append(log, Printed("usage"))
    /\ pc' = "usage"
    /\ UNCHANGED <<fs, ags_errors>>

\* click opens the files of the convert command line and calls convert
ClickConvert ==
    /\ pc = "shell"
    /\ \E i \in FileNames, o \in FileNames, f \in FormatColumnsArgs, d \in DictArgs :
          /\ d # None => CanOpenForRead(fs, d)
          /\ CanOpenForRead(fs, i)
          /\ fs' = OpenForWrite(fs, o)
          /\ cmd' = [command |-> "convert", argv |-> Argv(i, o, f, d),
                     input_file |-> FileObj(FileParamName(i, "r")),
                     output_file |-> FileObj(FileParamName(o, "w")),
                     format_columns |-> FormatColumnsParam(f),
                     dictionary |-> DictionaryParam(d)]
    /\ pc' = "convert"
    /\ UNCHANGED <<log, ags_errors>>

(***************************************************************************)
(* convert                                                                 *)
(***************************************************************************)
\* the first test with the case of the letters ignored
IsAgsToXlsxNoCase(input_file, output_file) ==
    EndsWith(Lower(input_file), AgsExt) /\ EndsWith(Lower(output_file), XlsxExt)

\* input_file.endswith('.ags') & output_file.endswith('.xlsx')
IsAgsToXlsx(input_file, output_file) ==
    EndsWith(input_file, AgsExt) /\ EndsWith(output_file, XlsxExt)

\* input_file.endswith('.xlsx') & output_file.endswith('.ags')
IsXlsxToAgs(input_file, output_file) ==
    EndsWith(input_file, XlsxExt) /\ EndsWith(output_file, AgsExt)

\* both .ags or both .xlsx
IsSameType(input_file, output_file) ==
    \/ EndsWith(input_file, AgsExt) /\ EndsWith(output_file, AgsExt)
    \/ EndsWith(input_file, XlsxExt) /\ EndsWith(output_file, XlsxExt)

\* the file type taken as the second part of the name, not the last
FileTypeSecond(input_file) ==
    LET parts == Split(input_file, ".") IN parts[IF Len(parts) >= 2 THEN 2 ELSE 1]

\* file_type = input_file.split('.')[-1]
FileType(input_file) ==
    LET parts == Split(input_file, ".") IN parts[Len(parts)]

\* the flag computed without .lower()
FormatNumericColumnsExact(format_columns) ==
    format_columns \in { <<"t", "r", "u", "e">>, <<"y", "e", "s">> }

\* format_numeric_columns = format_columns.lower() in ['true', 'yes']
FormatNumericColumns(format_columns) ==
    Lower(format_columns) \in { <<"t", "r", "u", "e">>, <<"y", "e", "s">> }

\* the dictionary dropped on the way to the collaborator
DictionaryArgDropped(dictionary) == None

\* if dictionary is not None: dictionary = dictionary.name
DictionaryArg(dictionary) ==
    IF dictionary # NoFile THEN dictionary.name ELSE None

\* the collaborator called with its two paths exchanged
AGS4ToExcelCallSwapped(input_file, output_file) ==
    Ev("call", "AGS4_to_excel", output_file, input_file, None, FALSE, 0)

\* AGS4.AGS4_to_excel(input_file, output_file)
AGS4ToExcelCall(input_file, output_file) ==
    Ev("call", "AGS4_to_excel", input_file, output_file, None, FALSE, 0)

\* AGS4.excel_to_AGS4(input_file, output_file, format_numeric_columns=..., dictionary=...)
ExcelToAGS4Call(input_file, output_file, format_numeric_columns, dictionary) ==
    Ev("call", "excel_to_AGS4", input_file, output_file, dictionary,
       format_numeric_columns, 0)

Returned(what) == Ev("return", what, None, None, None, FALSE, 0)
Raised(what) == Ev("raise", what, None, None, None, FALSE, 0)

\* the two opening lines and the blank line of a conversion branch
OpeningLines(input_file, output_file) ==
    << PrintedPath("opening", input_file), PrintedPath("exporting", output_file),
       Printed("blank") >>

\* first branch, up to the call of the collaborator
ConvertAgsToXlsx ==
    /\ pc = "convert"
    /\ LET input_file == cmd.input_file.name
           output_file == cmd.output_file.name
       IN /\ IsAgsToXlsx(input_file, output_file)
          /\ log' = log \o OpeningLines(input_file, output_file)
                        \o << AGS4ToExcelCall(input_file, output_file) >>
    /\ pc' = "AGS4_to_excel"
    /\ UNCHANGED <<cmd, fs, ags_errors>>

\* AGS4_to_excel returns having written the workbook; convert prints completion
AGS4ToExcelReturn ==
    /\ pc = "AGS4_to_excel"
    /\ LET call == log[Len(log)]
       IN fs' = WriteFile(fs, call.b, << Line("workbook", call.a, None, 0) >>)
    /\ log' = log \o << Returned("AGS4_to_excel"), Printed("complete") >>
    /\ pc' = "done"
    /\ UNCHANGED <<cmd, ags_errors>>

\* second branch, up to the call of the collaborator
ConvertXlsxToAgs ==
    /\ pc = "convert"
    /\ LET input_file == cmd.input_file.name
           output_file == cmd.output_file.name
       IN /\ ~IsAgsToXlsx(input_file, output_file)
          /\ IsXlsxToAgs(input_file, output_file)
          /\ log' = log \o OpeningLines(input_file, output_file)
                        \o << ExcelToAGS4Call(input_file, output_file,
                                              FormatNumericColumns(cmd.format_columns),
                                              DictionaryArg(cmd.dictionary)) >>
    /\ pc' = "excel_to_AGS4"
    /\ UNCHANGED <<cmd, fs, ags_errors>>

\* excel_to_AGS4 returns having written the AGS4 file; convert prints completion
ExcelToAGS4Return ==
    /\ pc = "excel_to_AGS4"
    /\ LET call == log[Len(log)]
       IN fs' = WriteFile(fs, call.b, << Line("ags4", call.a, call.c, 0) >>)
    /\ log' = log \o << Returned("excel_to_AGS4"), Printed("complete") >>
    /\ pc' = "done"
    /\ UNCHANGED <<cmd, ags_errors>>

\* a collaborator raises: the exception ends the command, nothing more is printed
CollaboratorRaise ==
    /\ pc \in {"AGS4_to_excel", "excel_to_AGS4", "check_file"}
    /\ log' = Append(log, Raised(pc))
    /\ pc' = "raised"
    /\ UNCHANGED <<cmd, fs, ags_errors>>

\* third branch: same type, warning only
ConvertSameType ==
    /\ pc = "convert"
    /\ LET input_file == cmd.input_file.name
           output_file == cmd.output_file.name
       IN /\ ~IsAgsToXlsx(input_file, output_file)
          /\ ~IsXlsxToAgs(input_file, output_file)
          /\ IsSameType(input_file, output_file)
          /\ log' = Append(log, PrintedPath("same_type", FileType(input_file)))
    /\ pc' = "done"
    /\ UNCHANGED <<cmd, fs, ags_errors>>

\* else branch: the two error lines
ConvertInvalid ==
    /\ pc = "convert"
    /\ LET input_file == cmd.input_file.name
           output_file == cmd.output_file.name
       IN /\ ~IsAgsToXlsx(input_file, output_file)
          /\ ~IsXlsxToAgs(input_file, output_file)
          /\ ~IsSameType(input_file, output_file)
    /\ log' = log \o << Printed("invalid"), Printed("help_hint") >>
    /\ pc' = "done"
    /\ UNCHANGED <<cmd, fs, ags_errors>>

(***************************************************************************)
(* check                                                                   *)
(***************************************************************************)
\* click.Path(exists=True) accepts the path
PathExists(files, arg) == arg \in DOMAIN files

\* @click.option('-d', '--dictionary', ..., default=path_to_standard_dictionary)
CheckDictionaryParam(arg) == IF arg = None THEN path_to_standard_dictionary ELSE arg

\* click rejects the check command line: the command body is not run
ClickCheckUsage ==
    /\ pc = "shell"
    /\ \E i \in FileNames, d \in DictArgs :
          /\ ~PathExists(fs, CheckDictionaryParam(d)) \/ ~PathExists(fs, i)
          /\ cmd' = [cmd EXCEPT !.command = "check", !.argv = Argv(i, None, None, d)]
    /\ log' = Append(log, Printed("usage"))
    /\ pc' = "usage"
    /\ UNCHANGED <<fs, ags_errors>>

\* click checks the paths of the check command line and calls check
ClickCheck ==
    /\ pc = "shell"
    /\ \E i \in FileNames, o \in LogArgs, d \in DictArgs :
          /\ PathExists(fs, CheckDictionaryParam(d))
          /\ PathExists(fs, i)
          /\ cmd' = [command |-> "check", argv |-> Argv(i, o, None, d),
                     input_file |-> i, output_file |-> o,
                     format_columns |-> None, dictionary |-> CheckDictionaryParam(d)]
    /\ pc' = "check"
    /\ UNCHANGED <<fs, log, ags_errors>>

\* the input accepted with the case of the letters ignored
CheckAcceptsNoCase(input_file) == EndsWith(Lower(input_file), AgsExt)

\* if input_file.endswith('.ags')
CheckAccepts(input_file) == EndsWith(input_file, AgsExt)

\* AGS4.check_file(input_file, standard_AGS4_dictionary=dictionary)
CheckFileCall(input_file, dictionary) ==
    Ev("call", "check_file", input_file, None, dictionary, FALSE, 0)

\* bool(ags_errors) is False: the mapping has no key
NoErrors(errors) == errors = <<>>

RECURSIVE ErrorCount(_)
\* error_count += len(val) for every key of the mapping
ErrorCount(errors) ==
    IF errors = <<>> THEN 0 ELSE Len(Head(errors).val) + ErrorCount(Tail(errors))

\* the limit taken inclusively
ShortEnoughInclusive(error_count) == error_count <= ErrorLimit

\* if error_count < 100
ShortEnough(error_count) == error_count < ErrorLimit

\* the line print_to_screen prints for one record
ScreenEntry(entry) ==
    Ev("print", "entry", Strip(entry.group, "\""), entry.desc, None, FALSE, entry.line)

RECURSIVE print_to_screen(_)
\* for every key: the key, its records, a blank line
print_to_screen(errors) ==
    IF errors = <<>> THEN <<>>
    ELSE LET e == Head(errors)
         IN << PrintedPath("key", e.key) >>
              \o [j \in 1..Len(e.val) |-> ScreenEntry(e.val[j])]
              \o << Printed("blank") >>
              \o print_to_screen(Tail(errors))

\* the line save_to_file writes for one record
FileEntry(entry) == Line("entry", Strip(entry.group, "\""), entry.desc, entry.line)

RECURSIVE ReportBody(_)
ReportBody(errors) ==
    IF errors = <<>> THEN <<>>
    ELSE LET e == Head(errors)
         IN << Line("key", e.key, None, 0) >>
              \o [j \in 1..Len(e.val) |-> FileEntry(e.val[j])]
              \o << Line("blank", None, None, 0) >>
              \o ReportBody(Tail(errors))

\* the content save_to_file writes to output_file
ReportContent(errors, input_file, error_count) ==
    << Line("input_file", input_file, None, 0),
       Line("errors_found", None, None, error_count),
       Line("blank", None, None, 0) >> \o ReportBody(errors)

\* save_to_file(output_file, ags_errors, input_file, error_count), as an event
Saved(output_file, error_count) ==
    Ev("write", "save_to_file", output_file, None, None, FALSE, error_count)

\* output_file = os.path.join(os.path.dirname(input_file), 'error_log.txt')
DefaultLogPath(input_file) == Join(Dirname(input_file), ErrorLogName)

\* the input is an .ags file: open it and call check_file
CheckAgs ==
    /\ pc = "check"
    /\ CheckAccepts(cmd.input_file)
    /\ log' = log \o << PrintedPath("opening", cmd.input_file), Printed("blank"),
                        Printed("status"),
                        CheckFileCall(cmd.input_file, cmd.dictionary) >>
    /\ pc' = "check_file"
    /\ UNCHANGED <<cmd, fs, ags_errors>>

\* any other input: one error line
CheckNotAgs ==
    /\ pc = "check"
    /\ ~CheckAccepts(cmd.input_file)
    /\ log' = Append(log, Printed("only_ags"))
    /\ pc' = "done"
    /\ UNCHANGED <<cmd, fs, ags_errors>>

\* check_file returns an empty mapping
CheckNoErrors ==
    /\ pc = "check_file"
    /\ \E errors \in ErrorMappings :
          /\ NoErrors(errors)
          /\ ags_errors' = errors
    /\ log' = log \o << Returned("check_file"), Printed("no_errors") >>
    /\ pc' = "done"
    /\ UNCHANGED <<cmd, fs>>

\* check_file returns a mapping short enough for the screen
CheckShortReport ==
    /\ pc = "check_file"
    /\ \E errors \in ErrorMappings :
          LET error_count == ErrorCount(errors)
          IN /\ ~NoErrors(errors)
             /\ ShortEnough(error_count)
             /\ ags_errors' = errors
             /\ IF cmd.output_file # None
                THEN /\ fs' = WriteFile(fs, cmd.output_file,
                                        ReportContent(errors, cmd.input_file, error_count))
                     /\ log' = log \o << Returned("check_file") >>
                                   \o print_to_screen(errors)
                                   \o << PrintedCount("errors_found", error_count),
                                         Saved(cmd.output_file, error_count),
                                         PrintedPath("saved", cmd.output_file) >>
                ELSE /\ fs' = fs
                     /\ log' = log \o << Returned("check_file") >>
                                   \o print_to_screen(errors)
                                   \o << PrintedCount("errors_found", error_count) >>
    /\ pc' = "done"
    /\ UNCHANGED cmd

\* check_file returns a mapping too long for the screen
CheckLongReport ==
    /\ pc = "check_file"
    /\ \E errors \in ErrorMappings :
          LET error_count == ErrorCount(errors)
              output_file == IF cmd.output_file = None
                             THEN DefaultLogPath(cmd.input_file)
                             ELSE cmd.output_file
          IN /\ ~NoErrors(errors)
             /\ ~ShortEnough(error_count)
             /\ ags_errors' = errors
             /\ fs' = WriteFile(fs, output_file,
                                ReportContent(errors, cmd.input_file, error_count))
             /\ log' = log \o << Returned("check_file"),
                                 PrintedCount("errors_found", error_count),
                                 Printed("too_long"),
                                 Saved(output_file, error_count),
                                 PrintedPath("saved", output_file) >>
    /\ pc' = "done"
    /\ UNCHANGED cmd

Next ==
    \/ ClickConvertUsage
    \/ ClickConvert
    \/ ConvertAgsToXlsx
    \/ AGS4ToExcelReturn
    \/ ConvertXlsxToAgs
    \/ ExcelToAGS4Return
    \/ ConvertSameType
    \/ ConvertInvalid
    \/ ClickCheckUsage
    \/ ClickCheck
    \/ CheckAgs
    \/ CheckNotAgs
    \/ CheckNoErrors
    \/ CheckShortReport
    \/ CheckLongReport
    \/ CollaboratorRaise

Spec == Init /\ [][Next]_vars

(***************************************************************************)
(* Vocabulary of the properties.                                           *)
(***************************************************************************)
Events(ev, what) == { k \in 1..Len(log) : log[k].ev = ev /\ log[k].what = what }
Calls(what) == Events("call", what)
Returns(what) == Events("return", what)
Prints(what) == Events("print", what)
Writes == Events("write", "save_to_file")
ConversionCalls == Calls("AGS4_to_excel") \cup Calls("excel_to_AGS4")

\* the body of the command has been entered
InConvert == cmd.command = "convert" /\ pc \notin {"shell", "usage"}
InCheck == cmd.command = "check" /\ pc \notin {"shell", "usage"}

\* the file system the program started with
InitialFS == [p \in InitialFiles |-> OriginalContent(p)]

TrueStr == <<"t", "r", "u", "e">>
FalseStr == <<"f", "a", "l", "s", "e">>
YesStr == <<"y", "e", "s">>

\* total number of records of the mapping check_file returned
RECURSIVE RecordsUpTo(_)
RecordsUpTo(k) == IF k = 0 THEN 0 ELSE Len(ags_errors[k].val) + RecordsUpTo(k - 1)
TotalRecords == RecordsUpTo(Len(ags_errors))

\* C1: a convert from a name ending .ags to a name ending .xlsx calls
\* AGS4_to_excel exactly once, with the input and the output path, never calls
\* excel_to_AGS4, and prints the completion message only after the call returned.
C1_AgsToXlsxCallsOnce ==
    (/\ InConvert
     /\ EndsWith(cmd.input_file.name, AgsExt)
     /\ EndsWith(cmd.output_file.name, XlsxExt))
    => /\ Calls("excel_to_AGS4") = {}
       /\ Cardinality(Calls("AGS4_to_excel")) = (IF pc = "convert" THEN 0 ELSE 1)
       /\ \A k \in Calls("AGS4_to_excel") :
             log[k].a = cmd.input_file.name /\ log[k].b = cmd.output_file.name
       /\ \A k \in Prints("complete") :
             \E c \in Calls("AGS4_to_excel"), r \in Returns("AGS4_to_excel") :
                c < r /\ r < k

C1_Witness ==
    /\ InConvert /\ pc = "done"
    /\ EndsWith(cmd.input_file.name, AgsExt)
    /\ EndsWith(cmd.output_file.name, XlsxExt)
    /\ Calls("AGS4_to_excel") # {}
    /\ Prints("complete") # {}

\* C2: a convert from a name ending .xlsx to a name ending .ags calls
\* excel_to_AGS4 exactly once with the input path, the output path, the computed
\* flag and the dictionary (the path given with -d, else None), and never calls
\* AGS4_to_excel.
C2_XlsxToAgsCallsOnce ==
    (/\ InConvert
     /\ EndsWith(cmd.input_file.name, XlsxExt)
     /\ EndsWith(cmd.output_file.name, AgsExt))
    => /\ Calls("AGS4_to_excel") = {}
       /\ Cardinality(Calls("excel_to_AGS4")) = (IF pc = "convert" THEN 0 ELSE 1)
       /\ \A k \in Calls("excel_to_AGS4") :
             /\ log[k].a = cmd.input_file.name
             /\ log[k].b = cmd.output_file.name
             /\ log[k].flag = FormatNumericColumns(cmd.format_columns)
             /\ log[k].c = cmd.argv.d

C2_Witness ==
    /\ InConvert /\ pc = "done"
    /\ EndsWith(cmd.input_file.name, XlsxExt)
    /\ EndsWith(cmd.output_file.name, AgsExt)
    /\ cmd.argv.d # None
    /\ \E k \in Calls("excel_to_AGS4") : log[k].c = cmd.argv.d

\* C3: a convert whose two names both end .ags, or both end .xlsx, calls no
\* conversion collaborator and prints exactly the same-type warning naming that
\* extension: no error line, no completion line.
C3_SameTypeWarnsOnly ==
    (/\ InConvert
     /\ \/ EndsWith(cmd.input_file.name, AgsExt) /\ EndsWith(cmd.output_file.name, AgsExt)
        \/ EndsWith(cmd.input_file.name, XlsxExt) /\ EndsWith(cmd.output_file.name, XlsxExt))
    => LET ext == IF EndsWith(cmd.input_file.name, AgsExt)
                  THEN <<"a", "g", "s">> ELSE <<"x", "l", "s", "x">>
       IN IF pc = "convert" THEN log = <<>>
          ELSE pc = "done" /\ log = << PrintedPath("same_type", ext) >>

C3_Witness ==
    /\ InConvert /\ pc = "done"
    /\ EndsWith(cmd.input_file.name, XlsxExt) /\ EndsWith(cmd.output_file.name, XlsxExt)
    /\ Prints("same_type") # {}

\* C4: a same-type convert, and a convert with an invalid pair of names, leave
\* the content of an existing OUTPUT_FILE as it was before the command.
C4_NoConversionKeepsOutput ==
    (/\ InConvert
     /\ ~IsAgsToXlsx(cmd.input_file.name, cmd.output_file.name)
     /\ ~IsXlsxToAgs(cmd.input_file.name, cmd.output_file.name)
     /\ cmd.output_file.name \in InitialFiles)
    => fs[cmd.output_file.name] = InitialFS[cmd.output_file.name]

\* the pair of names is one of the four the branches of convert test for
KnownPair(i, o) ==
    \/ EndsWith(i, AgsExt) /\ EndsWith(o, XlsxExt)
    \/ EndsWith(i, XlsxExt) /\ EndsWith(o, AgsExt)
    \/ EndsWith(i, AgsExt) /\ EndsWith(o, AgsExt)
    \/ EndsWith(i, XlsxExt) /\ EndsWith(o, XlsxExt)

\* the branches of convert that have left their mark in the log
BranchesTaken ==
    { b \in {"AGS4_to_excel", "excel_to_AGS4"} : Calls(b) # {} }
        \cup { b \in {"same_type", "invalid"} : Prints(b) # {} }

\* C5: a convert whose pair of names is none of the four known pairs prints the
\* invalid-filenames error and calls no conversion collaborator; every convert
\* takes exactly one of the four branches and makes at most one collaborator call.
C5_InvalidPairAndOneBranch ==
    (InConvert /\ pc # "convert")
    => /\ ~KnownPair(cmd.input_file.name, cmd.output_file.name)
            => Prints("invalid") # {} /\ ConversionCalls = {}
       /\ Cardinality(BranchesTaken) = 1
       /\ Cardinality(ConversionCalls) <= 1

C5_Witness ==
    /\ InConvert /\ pc = "done"
    /\ ~KnownPair(cmd.input_file.name, cmd.output_file.name)
    /\ EndsWith(Lower(cmd.input_file.name), AgsExt)
    /\ Prints("invalid") # {}

\* check has run to its end on an input whose name ends .ags
CheckedAgs == InCheck /\ pc = "done" /\ EndsWith(cmd.input_file, AgsExt)

\* C6: when check_file returns a non-empty mapping, its records are printed to
\* the screen if and only if their total number is below 100; from 100 on they
\* are written to a file and not printed.
C6_PrintBelowLimitElseFile ==
    (CheckedAgs /\ ags_errors # <<>>)
    => IF TotalRecords < 100
       THEN /\ Cardinality(Prints("entry")) = TotalRecords
            /\ Cardinality(Prints("key")) = Len(ags_errors)
       ELSE /\ Prints("entry") = {} /\ Prints("key") = {}
            /\ Writes # {}

C6_Witness ==
    /\ CheckedAgs
    /\ TotalRecords = 100
    /\ Prints("entry") = {}
    /\ Writes # {}

\* C7: check writes an error report exactly when there are 100 records or more,
\* or between 1 and 99 and -o was given; at most once; to the -o path when
\* given, else to error_log.txt beside the input; never for an empty mapping.
C7_ReportWrittenExactlyWhen ==
    CheckedAgs
    => /\ Cardinality(Writes) <= 1
       /\ Writes # {} <=> \/ TotalRecords >= 100
                          \/ TotalRecords >= 1 /\ TotalRecords < 100 /\ cmd.argv.o # None
       /\ \A k \in Writes :
             log[k].a = IF cmd.argv.o # None THEN cmd.argv.o
                        ELSE Join(Dirname(cmd.input_file), ErrorLogName)
       /\ ags_errors = <<>> => Writes = {}

\* C8: check calls check_file exactly once when the input name ends .ags and
\* never otherwise; for any other input it prints the only-.ags error and
\* nothing else, and writes no file, whatever -o and -d are.
C8_ValidationOnlyForAgs ==
    InCheck
    => IF EndsWith(cmd.input_file, AgsExt)
       THEN Cardinality(Calls("check_file")) = (IF pc = "check" THEN 0 ELSE 1)
       ELSE /\ Calls("check_file") = {}
            /\ fs = InitialFS
            /\ IF pc = "check" THEN log = <<>>
               ELSE pc = "done" /\ log = << Printed("only_ags") >>

C8_Witness ==
    /\ InCheck /\ pc = "done"
    /\ ~EndsWith(cmd.input_file, AgsExt)
    /\ EndsWith(Lower(cmd.input_file), AgsExt)
    /\ cmd.argv.o # None
    /\ Prints("only_ags") # {}

\* the -f value convert works with: the one typed, or the default "true"
FormatColumnsTyped == IF cmd.argv.f = None THEN TrueStr ELSE cmd.argv.f

C10_NoErrorsIffZeroRecords ==
    CheckedAgs
    => /\ Prints("no_errors") # {} <=> TotalRecords = 0
       /\ \A k \in Prints("errors_found") : log[k].n # 0

====
